---- MODULE Spec2Model ----
(***************************************************************************)
(* Model of the Orchestrate API command "instances create"                 *)
(* (src/api/orchestrateapi/commands/instances/create.py).                  *)
(*                                                                         *)
(* One creation call, run(request, context), is a sequence of steps:       *)
(*   get_template -> get_metadata -> build_name -> get_boot_images ->      *)
(*   images().get -> images().getFromFamily -> payload assembly ->         *)
(*   set_startup_script -> instances().insert -> response,                 *)
(* with the "except errors.HttpError" handler of run as a step of its own. *)
(* Python strings are TLA+ strings; Python dicts are functions whose       *)
(* DOMAIN is the set of keys; Python lists are sequences.                  *)
(***************************************************************************)
EXTENDS Integers, Sequences, FiniteSets, TLC

(***************************************************************************)
(* Bounds of the model.                                                    *)
(***************************************************************************)
MaxItems == 2
MaxDisks == 2
MaxListing == 2
MaxOverrides == 1

(***************************************************************************)
(* String helpers (Python str methods used by the source).                 *)
(***************************************************************************)
\* s.startswith(p)
StartsWith(s, p) == Len(s) >= Len(p) /\ SubSeq(s, 1, Len(p)) = p

\* s.endswith(p)
EndsWith(s, p) == Len(s) >= Len(p) /\ SubSeq(s, Len(s) - Len(p) + 1, Len(s)) = p

\* s[n:]
DropFirst(s, n) == IF Len(s) <= n THEN "" ELSE SubSeq(s, n + 1, Len(s))

\* s[:-n]
DropLast(s, n) == IF Len(s) <= n THEN "" ELSE SubSeq(s, 1, Len(s) - n)

\* The i-th character of s, as a string of length one.
CharAt(s, i) == SubSeq(s, i, i)

\* Position of the first occurrence of character c in s at or after i, 0 if none.
RECURSIVE IndexOf(_, _, _)
IndexOf(s, c, i) ==
  IF i > Len(s) THEN 0
  ELSE IF CharAt(s, i) = c THEN i
  ELSE IndexOf(s, c, i + 1)

\* s.split(sep), sep a single character.
RECURSIVE Split(_, _)
Split(s, sep) ==
  LET i == IndexOf(s, sep, 1)
  IN IF i = 0 THEN <<s>>
     ELSE <<SubSeq(s, 1, i - 1)>> \o Split(DropFirst(s, i), sep)

\* sep.join(parts)
RECURSIVE Join(_, _)
Join(parts, sep) ==
  IF Len(parts) = 0 THEN ""
  ELSE IF Len(parts) = 1 THEN parts[1]
  ELSE parts[1] \o sep \o Join(Tail(parts), sep)

\* parts[:n]
Take(parts, n) == IF Len(parts) <= n THEN parts ELSE SubSeq(parts, 1, n)

UpperCase == "ABCDEFGHIJKLMNOPQRSTUVWXYZ"
LowerCase == "abcdefghijklmnopqrstuvwxyz"

\* c.lower() for one character.
LowerChar(c) ==
  LET i == IndexOf(UpperCase, c, 1)
  IN IF i = 0 THEN c ELSE CharAt(LowerCase, i)

\* s.lower()
RECURSIVE Lower(_)
Lower(s) ==
  IF Len(s) = 0 THEN ""
  ELSE LowerChar(CharAt(s, 1)) \o Lower(DropFirst(s, 1))

(***************************************************************************)
(* Dict helpers.                                                           *)
(***************************************************************************)
EmptyDict == [k \in {} |-> ""]

\* d[k] = v
DictSet(d, k, v) == [x \in DOMAIN d \cup {k} |-> IF x = k THEN v ELSE d[x]]

\* d.get(k, default)
DictGet(d, k, default) == IF k \in DOMAIN d THEN d[k] ELSE default

\* Python's None where the source reads a string that may be absent
\* (d.get(k) of a missing key); no string of the model equals it.
None == "<None>"

\* Python truthiness of an optional string: None and '' are false.
Truthy(v) == v # None /\ v # ""

(***************************************************************************)
(* get_metadata: split the template's metadata items, then append the      *)
(* request's metadata.                                                     *)
(***************************************************************************)
ReservedPrefix == "orchestrate_"

\* The slice start of item['key'][8:].
KeySliceStart == 8

\* item['key'][8:]
StripPrefix(key) == DropFirst(key, KeySliceStart)

\* The loop over template['properties']['metadata']['items'], from item i on.
RECURSIVE SplitItems(_, _, _, _)
SplitItems(items, i, instance_metadata, orchestrate_metadata) ==
  IF i > Len(items) THEN
    [instance_metadata |-> instance_metadata,
     orchestrate_metadata |-> orchestrate_metadata]
  ELSE IF StartsWith(items[i].key, ReservedPrefix) THEN
    SplitItems(items, i + 1, instance_metadata,
               DictSet(orchestrate_metadata, StripPrefix(items[i].key),
                       items[i].value))
  ELSE
    SplitItems(items, i + 1, Append(instance_metadata, items[i]),
               orchestrate_metadata)

\* A faulty merge: an override replaces the items that have its key.
AppendOverrides_Keyed(instance_metadata, overrides) ==
  SelectSeq(instance_metadata,
            LAMBDA item : \A i \in 1..Len(overrides) : overrides[i].key # item.key)
    \o [i \in 1..Len(overrides) |->
          [key |-> overrides[i].key, value |-> overrides[i].value]]

\* The loop over instance.metadata.
AppendOverrides(instance_metadata, overrides) ==
  instance_metadata \o
    [i \in 1..Len(overrides) |->
       [key |-> overrides[i].key, value |-> overrides[i].value]]

get_metadata(instance, tmpl) ==
  LET split == SplitItems(tmpl.properties.metadata.items, 1, <<>>, EmptyDict)
  IN [instance_metadata |->
        AppendOverrides(split.instance_metadata, instance.metadata),
      orchestrate_metadata |-> split.orchestrate_metadata]

(***************************************************************************)
(* str.format with keyword arguments: "{name}" becomes kwargs[name],       *)
(* '{{' and '}}' are literal braces.  The result is either the formatted   *)
(* string or the exception Python raises: KeyError for a name that is not  *)
(* a keyword argument, IndexError for an empty or numeric field (there are *)
(* no positional arguments), ValueError for an unbalanced brace.           *)
(* Conversions and format specs ('!r', ':>4') are outside the model.       *)
(***************************************************************************)
Digits == "0123456789"

RECURSIVE AllDigits(_)
AllDigits(s) ==
  \/ Len(s) = 0
  \/ /\ IndexOf(Digits, CharAt(s, 1), 1) # 0
     /\ AllDigits(DropFirst(s, 1))

Formatted(v) == [ok |-> TRUE, value |-> v, exc |-> ""]
FormatError(e) == [ok |-> FALSE, value |-> "", exc |-> e]

RECURSIVE FormatFrom(_, _, _, _)
FormatFrom(pattern, i, acc, kwargs) ==
  IF i > Len(pattern) THEN Formatted(acc)
  ELSE
    LET c == CharAt(pattern, i)
        next == IF i < Len(pattern) THEN CharAt(pattern, i + 1) ELSE ""
    IN IF c = "{" THEN
         IF next = "{" THEN FormatFrom(pattern, i + 2, acc \o "{", kwargs)
         ELSE
           LET j == IndexOf(pattern, "}", i + 1)
               field == SubSeq(pattern, i + 1, j - 1)
           IN IF j = 0 THEN FormatError("ValueError")
              ELSE IF IndexOf(field, "{", 1) # 0 THEN FormatError("ValueError")
              ELSE IF AllDigits(field) THEN FormatError("IndexError")
              ELSE IF field \in DOMAIN kwargs THEN
                FormatFrom(pattern, j + 1, acc \o kwargs[field], kwargs)
              ELSE FormatError("KeyError")
       ELSE IF c = "}" THEN
         IF next = "}" THEN FormatFrom(pattern, i + 2, acc \o "}", kwargs)
         ELSE FormatError("ValueError")
       ELSE FormatFrom(pattern, i + 1, acc \o c, kwargs)

Format(pattern, kwargs) == FormatFrom(pattern, 1, "", kwargs)

(***************************************************************************)
(* build_name.  unique_id stands for uuid.uuid4().hex[:5], drawn once per  *)
(* call by the caller of this operator.                                    *)
(***************************************************************************)
default_pattern == "{template}-{size}-{id}"

\* instance.name or instance_name_pattern or default_pattern
name_pattern(instance, orchestrate_metadata) ==
  LET instance_name_pattern ==
        DictGet(orchestrate_metadata, "instance_name_pattern", None)
  IN IF Truthy(instance.name) THEN instance.name
     ELSE IF Truthy(instance_name_pattern) THEN instance_name_pattern
     ELSE default_pattern

\* '-'.join(instance.zone.split('-')[:2])
RegionOf(zone) == Join(Take(Split(zone, "-"), 2), "-")

\* The keyword arguments of name_pattern.format(...).
NameFields(instance, orchestrate_metadata, unique_id) ==
  LET gpu_count == DictGet(orchestrate_metadata, "gpu_count", "0")
      gpu_type == DictGet(orchestrate_metadata, "gpu_type", "")
      graphics_type == IF EndsWith(gpu_type, "-vws") THEN "vws" ELSE "gpu"
      gpu_name == IF ~EndsWith(gpu_type, "-vws") THEN gpu_type
                  ELSE DropLast(gpu_type, 4)
  IN [template |-> instance.template,
      size |-> instance.size,
      region |-> RegionOf(instance.zone),
      zone |-> instance.zone,
      type |-> graphics_type,
      gpu_name |-> gpu_name,
      gpu_count |-> gpu_count,
      gpu_type |-> gpu_type,
      user |-> unique_id,
      id |-> unique_id]

\* A faulty variant: a pattern that cannot be formatted is used as it is.
build_name_Lenient(instance, orchestrate_metadata, unique_id) ==
  LET built == Format(name_pattern(instance, orchestrate_metadata),
                      NameFields(instance, orchestrate_metadata, unique_id))
  IN IF built.ok THEN built
     ELSE Formatted(name_pattern(instance, orchestrate_metadata))

build_name(instance, orchestrate_metadata, unique_id) ==
  Format(name_pattern(instance, orchestrate_metadata),
         NameFields(instance, orchestrate_metadata, unique_id))

(***************************************************************************)
(* Results of the functions that can raise.                                *)
(***************************************************************************)
CreationError == "OrchestrateInstanceCreationError"

Return(v) == [ok |-> TRUE, value |-> v]
Raise(kind, message) == [ok |-> FALSE, exc |-> [kind |-> kind, message |-> message]]

(***************************************************************************)
(* get_os_type.                                                            *)
(***************************************************************************)
linux_families == {"centos", "debian", "rhel", "sles", "cos", "coreos", "ubuntu"}

UnknownOsMessage(image) ==
  "Image " \o image.selfLink \o " does not have a orchestrate_os label."

get_os_type(image) ==
  LET labels == DictGet(image, "labels", EmptyDict)
      os_type == DictGet(labels, "orchestrate_os", None)
      family == Split(image.family, "-")[1]
  IN IF Truthy(os_type) THEN Return(Lower(os_type))
     ELSE IF family = "windows" THEN Return("windows")
     ELSE IF family \in linux_families THEN Return("linux")
     ELSE Raise(CreationError, UnknownOsMessage(image))

(***************************************************************************)
(* set_startup_script: the item appended to the metadata list, if any.     *)
(***************************************************************************)
ORCHESTRATE_BUCKET == "bucket"

StartupItems(os_type) ==
  IF os_type = "linux" THEN
    <<[key |-> "startup-script-url",
       value |-> "gs://" \o ORCHESTRATE_BUCKET \o "/remotedesktopconfigure.py"]>>
  ELSE IF os_type = "windows" THEN
    <<[key |-> "windows-startup-script-url",
       value |-> "gs://" \o ORCHESTRATE_BUCKET \o "/remotedesktopconfigure.ps1"]>>
  ELSE <<>>

\* A faulty variant: a failed OS classification is swallowed.
set_startup_script_Swallow(metadata, image) ==
  LET os_type == get_os_type(image)
  IN IF os_type.ok THEN Return(metadata \o StartupItems(os_type.value))
     ELSE Return(metadata)

set_startup_script(metadata, image) ==
  LET os_type == get_os_type(image)
  IN IF os_type.ok THEN Return(metadata \o StartupItems(os_type.value))
     ELSE os_type

(***************************************************************************)
(* get_boot_images: the first boot-flagged disk, and the parse of its      *)
(* sourceImage link in get_images.                                         *)
(***************************************************************************)
NoBootDiskMessage == "Template has no boot disk."

\* A faulty scan: the last boot-flagged disk instead of the first.
FirstBoot_Last(disks, i) ==
  LET boots == {j \in i..Len(disks) : disks[j].boot}
  IN IF boots = {} THEN 0 ELSE CHOOSE j \in boots : \A k \in boots : k <= j

\* Index of the first disk with disk['boot'] true from i on, 0 if none.
RECURSIVE FirstBoot(_, _)
FirstBoot(disks, i) ==
  IF i > Len(disks) THEN 0
  ELSE IF disks[i].boot THEN i
  ELSE FirstBoot(disks, i + 1)

\* Start positions of the occurrences of sub in s.
Occurrences(s, sub) ==
  {i \in 1..Len(s) :
     i + Len(sub) - 1 <= Len(s) /\ SubSeq(s, i, i + Len(sub) - 1) = sub}

Max(S) == CHOOSE x \in S : \A y \in S : y <= x

\* re.match(r'.*/projects/(?P<project>.*)/global/images/(?P<version>.*)', link):
\* both '.*' before the literals are greedy.
MatchImageLink(link) ==
  LET lit1 == "/projects/"
      lit2 == "/global/images/"
      G == Occurrences(link, lit2)
      P == {i \in Occurrences(link, lit1) : \E j \in G : j >= i + Len(lit1)}
  IN IF P = {} THEN [matched |-> FALSE, project |-> "", version |-> ""]
     ELSE LET i == Max(P)
              j == Max({k \in G : k >= i + Len(lit1)})
          IN [matched |-> TRUE,
              project |-> SubSeq(link, i + Len(lit1), j - 1),
              version |-> DropFirst(link, j + Len(lit2) - 1)]

(***************************************************************************)
(* get_template: the scan of the listing for the default size.             *)
(***************************************************************************)
IsDefaultSize(tmpl) ==
  \E i \in 1..Len(tmpl.properties.metadata.items) :
    LET item == tmpl.properties.metadata.items[i]
    IN item.key = "orchestrate_default_size" /\ item.value = "true"

\* A faulty scan: the last template marked as the default size.
FirstDefault_Last(templates, i) ==
  LET marked == {j \in i..Len(templates) : IsDefaultSize(templates[j])}
  IN IF marked = {} THEN 0 ELSE CHOOSE j \in marked : \A k \in marked : k <= j

\* Index of the first template marked as the default size from i on, 0 if none.
RECURSIVE FirstDefault(_, _)
FirstDefault(templates, i) ==
  IF i > Len(templates) THEN 0
  ELSE IF IsDefaultSize(templates[i]) THEN i
  ELSE FirstDefault(templates, i + 1)

ListFilter(instance) == "name = \"" \o instance.template \o "-*\""

NoDefaultSizeMessage(instance) ==
  "Could not locate default size for project " \o instance.project
    \o " template " \o instance.template
    \o ". Please specify an explicit size in the request."

\* '{template}-{size}'
TemplateName(instance) == instance.template \o "-" \o instance.size

\* response.get('items', dict()) scanned for the default size.
LocateDefault(instance, response) ==
  LET templates == DictGet(response, "items", <<>>)
      i == FirstDefault(templates, 1)
  IN IF i # 0 THEN Return(templates[i])
     ELSE Raise(CreationError, NoDefaultSizeMessage(instance))

(***************************************************************************)
(* build_instance_payload: the assembly of the payload from the template's *)
(* properties (everything between get_boot_images and set_startup_script). *)
(***************************************************************************)
keys_to_transfer ==
  {"machineType", "tags", "canIpForward", "networkInterfaces", "labels",
   "scheduling", "deletionProtection", "serviceAccounts", "guestAccelerators",
   "disks"}

ZoneUrl(instance) == "projects/" \o instance.project \o "/zones/" \o instance.zone

RegionUrl(instance) ==
  "projects/" \o instance.project \o "/regions/" \o RegionOf(instance.zone)

Description(instance) ==
  "Orchestrate instance created from template " \o instance.template
    \o " size " \o instance.size

\* payload = dict(name=..., description=...) and the loop over keys_to_transfer.
TransferKeys(instance, properties, name) ==
  [k \in {"name", "description"} \cup (keys_to_transfer \cap DOMAIN properties) |->
     IF k = "name" THEN name
     ELSE IF k = "description" THEN Description(instance)
     ELSE properties[k]]

\* payload['machineType'] = ...
MachineType(instance, orchestrate_metadata) ==
  ZoneUrl(instance) \o "/machineTypes/"
    \o DictGet(orchestrate_metadata, "machine_type", "n1-standard-8")

\* The body of the loop over payload.get('guestAccelerators', []).
RewriteAccelerator(instance, accelerator) ==
  [accelerator EXCEPT !.acceleratorType =
     ZoneUrl(instance) \o "/acceleratorTypes/" \o accelerator.acceleratorType]

\* A faulty loop body: the latest image replaces the sourceImage of every
\* disk, boot-flagged or not.
RewriteDisk_EveryDisk(instance, disk, boot_image_latest) ==
  LET typed == [disk EXCEPT !.initializeParams.diskType =
                  ZoneUrl(instance) \o "/diskTypes/" \o disk.initializeParams.diskType]
  IN IF instance.use_latest_image
     THEN [typed EXCEPT !.initializeParams.sourceImage = boot_image_latest.selfLink]
     ELSE typed

\* The body of the loop over payload['disks'].
RewriteDisk(instance, disk, boot_image_latest) ==
  LET typed == [disk EXCEPT !.initializeParams.diskType =
                  ZoneUrl(instance) \o "/diskTypes/" \o disk.initializeParams.diskType]
  IN IF disk.boot /\ instance.use_latest_image
     THEN [typed EXCEPT !.initializeParams.sourceImage = boot_image_latest.selfLink]
     ELSE typed

\* The body of the loop over payload['networkInterfaces'].
RewriteInterface(instance, interface, orchestrate_metadata) ==
  LET network == DictGet(orchestrate_metadata, "network", "default")
  IN [k \in DOMAIN interface \cup {"network", "subnetwork"} |->
        IF k = "network" THEN "global/networks/" \o network
        ELSE IF k = "subnetwork" THEN
          RegionUrl(instance) \o "/subnetworks/" \o network
        ELSE interface[k]]

AssemblePayload(instance, tmpl, name, orchestrate_metadata, boot_image_latest) ==
  LET properties == tmpl.properties
      p0 == TransferKeys(instance, properties, name)
      p1 == DictSet(p0, "machineType", MachineType(instance, orchestrate_metadata))
      p2 == IF "guestAccelerators" \in DOMAIN p1
            THEN DictSet(p1, "guestAccelerators",
                         [i \in 1..Len(p1.guestAccelerators) |->
                            RewriteAccelerator(instance, p1.guestAccelerators[i])])
            ELSE p1
      p3 == DictSet(p2, "disks",
                    [i \in 1..Len(p2.disks) |->
                       RewriteDisk(instance, p2.disks[i], boot_image_latest)])
  IN DictSet(p3, "networkInterfaces",
             [i \in 1..Len(p3.networkInterfaces) |->
                RewriteInterface(instance, p3.networkInterfaces[i],
                                 orchestrate_metadata)])

\* boot_image_latest if instance.use_latest_image else boot_image
BootedImage(instance, boot_image, boot_image_latest) ==
  IF instance.use_latest_image THEN boot_image_latest ELSE boot_image

(***************************************************************************)
(* The inputs of one call: the request, and what the remote API holds      *)
(* (the template a get returns, the response of a list, the image a disk   *)
(* references and the latest image of its family).                         *)
(***************************************************************************)
SeqsUpTo(S, n) == UNION {[1..k -> S] : k \in 0..n}

Item(k, v) == [key |-> k, value |-> v]

MachineTypeItem == Item("orchestrate_machine_type", "n1-highmem-4")
NamePatternItem == Item("orchestrate_instance_name_pattern", "{type}-{region}-{user}")
GpuTypeItem == Item("orchestrate_gpu_type", "nvidia-tesla-t4-vws")
PlainItem == Item("enable-oslogin", "TRUE")
OtherPlainItem == Item("block-project-ssh-keys", "TRUE")
DefaultSizeItem == Item("orchestrate_default_size", "true")
NotDefaultSizeItem == Item("orchestrate_default_size", "false")

ItemLists ==
  SeqsUpTo({MachineTypeItem, NamePatternItem, GpuTypeItem, PlainItem}, MaxItems)

ListedItemLists ==
  {<<>>, <<DefaultSizeItem>>, <<NotDefaultSizeItem>>, <<PlainItem, DefaultSizeItem>>,
   <<DefaultSizeItem, NamePatternItem>>, <<MachineTypeItem, DefaultSizeItem>>}

OverrideLists ==
  SeqsUpTo({Item("enable-oslogin", "FALSE"), Item("owner", "ann")}, MaxOverrides)

ImageUrl(project, version) ==
  "https://c/projects/" \o project \o "/global/images/" \o version

Disk(boot, sourceImage) ==
  [boot |-> boot,
   initializeParams |-> [sourceImage |-> sourceImage, diskType |-> "pd-ssd"]]

BootDisk == Disk(TRUE, ImageUrl("img", "v1"))
OtherBootDisk == Disk(TRUE, ImageUrl("img", "w1"))
DataDisk == Disk(FALSE, ImageUrl("img", "data"))

DiskLists == SeqsUpTo({BootDisk, OtherBootDisk, DataDisk}, MaxDisks)

MkTemplate(size, items, disks) ==
  [name |-> "render-" \o size,
   properties |->
     [machineType |-> "n1-standard-4",
      tags |-> [items |-> <<"workstation">>],
      networkInterfaces |-> <<[network |-> "global/networks/template"]>>,
      guestAccelerators |->
        <<[acceleratorType |-> "nvidia-tesla-t4", acceleratorCount |-> "1"]>>,
      disks |-> disks,
      metadata |-> [items |-> items]]]

StandardTemplate == MkTemplate("8", <<PlainItem>>, <<BootDisk, DataDisk>>)

ListedTemplates ==
  {MkTemplate(size, items, <<BootDisk>>) :
     size \in {"4", "8"}, items \in ListedItemLists}

\* The responses of instanceTemplates().list: no 'items' key when empty.
ListResponses ==
  {[kind |-> "compute#instanceTemplateList"]} \cup
  {[kind |-> "compute#instanceTemplateList", items |-> l] :
     l \in SeqsUpTo(ListedTemplates, MaxListing) \ {<<>>}}

OsLabels == {"Linux", "WINDOWS", "macos"}
ImageFamilies == {"centos-7", "windows-2019", "acme-custom"}

\* The images of a family at a version, with and without the OS label.  The
\* image a get returns carries the link of the version asked for.
ImagesOf(family, version) ==
  {[selfLink |-> ImageUrl("img", version), family |-> family]} \cup
  {[selfLink |-> ImageUrl("img", version), family |-> family,
    labels |-> [orchestrate_os |-> l]] : l \in OsLabels}

\* An image at the version the template references, and the latest image of
\* the same family.
ImagePairs ==
  UNION {ImagesOf(f, "v1") \X ImagesOf(f, "v2") : f \in ImageFamilies}

StandardImage == [selfLink |-> ImageUrl("img", "v1"), family |-> "centos-7"]
StandardLatest == [selfLink |-> ImageUrl("img", "v2"), family |-> "centos-7"]

Request(size, name, metadata, use_latest_image) ==
  [project |-> "proj", zone |-> "us-west1-b", template |-> "render",
   size |-> size, name |-> name, metadata |-> metadata,
   use_latest_image |-> use_latest_image]

World(get_response, list_response, image, latest) ==
  [get_response |-> get_response, list_response |-> list_response,
   image |-> image, latest |-> latest]

RequestNames == {"", "workstation", "ws-{zone}-{id}", "ws-{id}-{team}"}

\* Naming and metadata: every name, override list and template item list.
NamingScenarios ==
  {[request |-> Request("8", n, o, FALSE),
    world |-> World(MkTemplate("8", items, <<BootDisk, DataDisk>>),
                    [kind |-> "compute#instanceTemplateList"],
                    StandardImage, StandardLatest)] :
     n \in RequestNames, o \in OverrideLists, items \in ItemLists}

\* Disks and images: every disk list, image, latest image and flag.
DiskScenarios ==
  {[request |-> Request("8", "", <<>>, latest_flag),
    world |-> World(MkTemplate("8", <<PlainItem>>, disks),
                    [kind |-> "compute#instanceTemplateList"],
                    images[1], images[2])] :
     latest_flag \in BOOLEAN, disks \in DiskLists, images \in ImagePairs}

\* Default size: every listing; the request omits the size.
LocatorScenarios ==
  {[request |-> Request("", n, <<>>, FALSE),
    world |-> World(StandardTemplate, r, StandardImage, StandardLatest)] :
     n \in {"", "workstation"}, r \in ListResponses}

\* Metadata merge: plain and prefixed template items with every override list.
MergeScenarios ==
  {[request |-> Request("8", "", o, FALSE),
    world |-> World(MkTemplate("8", items, <<BootDisk>>),
                    [kind |-> "compute#instanceTemplateList"],
                    StandardImage, StandardLatest)] :
     o \in OverrideLists,
     items \in SeqsUpTo({PlainItem, OtherPlainItem, MachineTypeItem}, MaxItems)}

Scenarios ==
  NamingScenarios \cup DiskScenarios \cup LocatorScenarios \cup MergeScenarios

UniqueIds == {"a1b2c", "0f9e8"}
HttpStatuses == {404, 409}

(***************************************************************************)
(* State of one call of run.                                               *)
(***************************************************************************)
VARIABLES
  request,              \* request.instance
  world,                \* what the remote API holds
  pc,                   \* the step run is about to take
  template,             \* build_instance_payload: template
  instance_metadata,    \* build_instance_payload: instance_metadata
  orchestrate_metadata, \* build_instance_payload: orchestrate_metadata
  name,                 \* build_instance_payload: name
  image_ref,            \* get_images: project and version of the link
  boot_image,           \* build_instance_payload: boot_image
  boot_image_latest,    \* build_instance_payload: boot_image_latest
  payload,              \* build_instance_payload: payload
  run_payload,          \* run: payload
  exception,            \* the HttpError raised inside the try block of run
  outcome,              \* what run returned or raised to its caller
  calls                 \* the remote API calls made so far, in order

vars ==
  <<request, world, pc, template, instance_metadata, orchestrate_metadata,
    name, image_ref, boot_image, boot_image_latest, payload, run_payload,
    exception, outcome, calls>>

\* A local variable that has not been assigned.
Unbound == [unbound |-> TRUE]
IsBound(v) == "unbound" \notin DOMAIN v

NoError == [kind |-> "none", status |-> 0, message |-> ""]

\* errors.HttpError raised by the remote call `method`.
HttpError(status, method) ==
  [kind |-> "HttpError", status |-> status, message |-> method]

\* An exception that is no HttpError.
Exception(kind, message) == [kind |-> kind, status |-> 0, message |-> message]

\* orchestrate_pb2.CreateInstanceResponse(status='SUBMITTED', ...)
Response(n) == [kind |-> "CreateInstanceResponse", status |-> "SUBMITTED", name |-> n]

Pending == [kind |-> "PENDING"]

Call(method, arg) == [method |-> method, arg |-> arg]

Init ==
  /\ \E sc \in Scenarios : request = sc.request /\ world = sc.world
  /\ pc = "get_template"
  /\ template = Unbound
  /\ instance_metadata = <<>>
  /\ orchestrate_metadata = EmptyDict
  /\ name = ""
  /\ image_ref = Unbound
  /\ boot_image = Unbound
  /\ boot_image_latest = Unbound
  /\ payload = Unbound
  /\ run_payload = Unbound
  /\ exception = NoError
  /\ outcome = Pending
  /\ calls = <<>>

\* A remote call raises errors.HttpError: control passes to the except clause.
RemoteFails(method, arg) ==
  \E status \in HttpStatuses :
    /\ calls' = Append(calls, Call(method, arg))
    /\ exception' = HttpError(status, method)
    /\ pc' = "except"

\* An exception that run does not catch reaches the caller.
Propagate(exc) ==
  /\ outcome' = exc
  /\ pc' = "done"

(***************************************************************************)
(* The steps of run.                                                       *)
(***************************************************************************)
\* get_template(instance)
GetTemplate ==
  /\ pc = "get_template"
  /\ IF ~Truthy(request.size) THEN
       \/ /\ RemoteFails("instanceTemplates.list", ListFilter(request))
          /\ UNCHANGED <<template, outcome>>
       \/ /\ calls' = Append(calls, Call("instanceTemplates.list", ListFilter(request)))
          /\ LET found == LocateDefault(request, world.list_response)
             IN IF found.ok
                THEN /\ template' = found.value
                     /\ pc' = "get_metadata"
                     /\ UNCHANGED outcome
                ELSE /\ Propagate(found.exc)
                     /\ UNCHANGED template
          /\ UNCHANGED exception
     ELSE
       \/ /\ RemoteFails("instanceTemplates.get", TemplateName(request))
          /\ UNCHANGED <<template, outcome>>
       \/ /\ calls' = Append(calls, Call("instanceTemplates.get", TemplateName(request)))
          /\ template' = world.get_response
          /\ pc' = "get_metadata"
          /\ UNCHANGED <<exception, outcome>>
  /\ UNCHANGED <<request, world, instance_metadata, orchestrate_metadata, name,
                 image_ref, boot_image, boot_image_latest, payload, run_payload>>

\* instance_metadata, orchestrate_metadata = get_metadata(instance, template)
GetMetadata ==
  /\ pc = "get_metadata"
  /\ LET split == get_metadata(request, template)
     IN /\ instance_metadata' = split.instance_metadata
        /\ orchestrate_metadata' = split.orchestrate_metadata
  /\ pc' = "build_name"
  /\ UNCHANGED <<request, world, template, name, image_ref, boot_image,
                 boot_image_latest, payload, run_payload, exception, outcome,
                 calls>>

\* name = build_name(instance, orchestrate_metadata)
BuildName ==
  /\ pc = "build_name"
  /\ \E unique_id \in UniqueIds :
       LET built == build_name(request, orchestrate_metadata, unique_id)
       IN IF built.ok
          THEN /\ name' = built.value
               /\ pc' = "get_boot_images"
               /\ UNCHANGED outcome
          ELSE /\ Propagate(Exception(built.exc, ""))
               /\ UNCHANGED name
  /\ UNCHANGED <<request, world, template, instance_metadata,
                 orchestrate_metadata, image_ref, boot_image, boot_image_latest,
                 payload, run_payload, exception, calls>>

\* get_boot_images(properties['disks']) up to the first remote call of
\* get_images
GetBootImages ==
  /\ pc = "get_boot_images"
  /\ LET disks == template.properties.disks
         i == FirstBoot(disks, 1)
         match == MatchImageLink(disks[i].initializeParams.sourceImage)
     IN IF i = 0 THEN
          /\ Propagate(Exception(CreationError, NoBootDiskMessage))
          /\ UNCHANGED image_ref
        ELSE IF ~match.matched THEN
          \* match is None: match.group raises AttributeError
          /\ Propagate(Exception("AttributeError", ""))
          /\ UNCHANGED image_ref
        ELSE
          /\ image_ref' = [project |-> match.project, version |-> match.version]
          /\ pc' = "images_get"
          /\ UNCHANGED outcome
  /\ UNCHANGED <<request, world, template, instance_metadata,
                 orchestrate_metadata, name, boot_image, boot_image_latest,
                 payload, run_payload, exception, calls>>

\* image = compute.images().get(project=project, image=version).execute()
ImagesGet ==
  /\ pc = "images_get"
  /\ \/ /\ RemoteFails("images.get", image_ref.version)
        /\ UNCHANGED boot_image
     \/ /\ calls' = Append(calls, Call("images.get", image_ref.version))
        /\ boot_image' =
             [world.image EXCEPT
                !.selfLink = ImageUrl(image_ref.project, image_ref.version)]
        /\ pc' = "images_getFromFamily"
        /\ UNCHANGED exception
  /\ UNCHANGED <<request, world, template, instance_metadata,
                 orchestrate_metadata, name, image_ref, boot_image_latest,
                 payload, run_payload, outcome>>

\* latest = compute.images().getFromFamily(project=project,
\*                                         family=image['family']).execute()
ImagesGetFromFamily ==
  /\ pc = "images_getFromFamily"
  /\ \/ /\ RemoteFails("images.getFromFamily", boot_image.family)
        /\ UNCHANGED boot_image_latest
     \/ /\ calls' = Append(calls, Call("images.getFromFamily", boot_image.family))
        /\ boot_image_latest' = world.latest
        /\ pc' = "assemble"
        /\ UNCHANGED exception
  /\ UNCHANGED <<request, world, template, instance_metadata,
                 orchestrate_metadata, name, image_ref, boot_image, payload,
                 run_payload, outcome>>

\* payload = dict(...) up to the loop over payload['networkInterfaces']
Assemble ==
  /\ pc = "assemble"
  /\ payload' = AssemblePayload(request, template, name, orchestrate_metadata,
                                boot_image_latest)
  /\ pc' = "set_startup_script"
  /\ UNCHANGED <<request, world, template, instance_metadata,
                 orchestrate_metadata, name, image_ref, boot_image,
                 boot_image_latest, run_payload, exception, outcome, calls>>

\* set_startup_script(...), payload['metadata'] = dict(items=instance_metadata),
\* return payload: run binds its payload
SetStartupScript ==
  /\ pc = "set_startup_script"
  /\ LET set == set_startup_script(
                  instance_metadata,
                  BootedImage(request, boot_image, boot_image_latest))
     IN IF set.ok
        THEN /\ instance_metadata' = set.value
             /\ payload' = DictSet(payload, "metadata", [items |-> set.value])
             /\ run_payload' = payload'
             /\ pc' = "insert"
             /\ UNCHANGED outcome
        ELSE /\ Propagate(set.exc)
             /\ UNCHANGED <<instance_metadata, payload, run_payload>>
  /\ UNCHANGED <<request, world, template, orchestrate_metadata, name,
                 image_ref, boot_image, boot_image_latest, exception, calls>>

\* operation = compute.instances().insert(..., body=payload).execute() and the
\* return of the response
Insert ==
  /\ pc = "insert"
  /\ \/ /\ RemoteFails("instances.insert", run_payload.name)
        /\ UNCHANGED outcome
     \/ /\ calls' = Append(calls, Call("instances.insert", run_payload.name))
        /\ outcome' = Response(run_payload.name)
        /\ pc' = "done"
        /\ UNCHANGED exception
  /\ UNCHANGED <<request, world, template, instance_metadata,
                 orchestrate_metadata, name, image_ref, boot_image,
                 boot_image_latest, payload, run_payload>>

ConflictMessage(n) == "An instance with name " \o n \o " already exists."

\* except errors.HttpError as exception: ...
\* payload['name'] of an unassigned payload raises UnboundLocalError.
HandleHttpError(exc, bound_payload) ==
  IF exc.status = 409 THEN
    IF IsBound(bound_payload)
    THEN Exception(CreationError, ConflictMessage(bound_payload.name))
    ELSE Exception("UnboundLocalError", "payload")
  ELSE exc

Except ==
  /\ pc = "except"
  /\ outcome' = HandleHttpError(exception, run_payload)
  /\ pc' = "done"
  /\ UNCHANGED <<request, world, template, instance_metadata,
                 orchestrate_metadata, name, image_ref, boot_image,
                 boot_image_latest, payload, run_payload, exception, calls>>

Next ==
  \/ GetTemplate
  \/ GetMetadata
  \/ BuildName
  \/ GetBootImages
  \/ ImagesGet
  \/ ImagesGetFromFamily
  \/ Assemble
  \/ SetStartupScript
  \/ Insert
  \/ Except

Spec == Init /\ [][Next]_vars

(***************************************************************************)
(* Vocabulary of the properties.                                           *)
(***************************************************************************)
Range(seq) == {seq[i] : i \in 1..Len(seq)}

CallCount(method) == Cardinality({i \in 1..Len(calls) : calls[i].method = method})

BootCount(disks) == Cardinality({i \in 1..Len(disks) : disks[i].boot})

\* The steps at which build_name has returned a name.
AfterBuildName ==
  {"get_boot_images", "images_get", "images_getFromFamily", "assemble",
   "set_startup_script", "insert"}

Submitted == outcome.kind = "CreateInstanceResponse"

NoBootDiskError == Exception(CreationError, NoBootDiskMessage)

\* The value of the last template item with the given key, None if there is none.
LastValue(items, key) ==
  LET at == {i \in 1..Len(items) : items[i].key = key}
  IN IF at = {} THEN None ELSE items[Max(at)].value

\* Every resolution step of build_instance_payload has succeeded.
ResolutionSucceeded ==
  /\ IsBound(template)
  /\ IsBound(boot_image) /\ IsBound(boot_image_latest)
  /\ IsBound(run_payload)
  /\ "metadata" \in DOMAIN run_payload
  /\ run_payload.name = name
  /\ get_os_type(BootedImage(request, boot_image, boot_image_latest)).ok
  /\ get_metadata(request, template).orchestrate_metadata = orchestrate_metadata
  /\ \E id \in UniqueIds :
       LET built == build_name(request, orchestrate_metadata, id)
       IN built.ok /\ built.value = name

\* The call has ended, or is about to end, on the failure of a resolution
\* step: an exception of build_instance_payload, or the HttpError of a remote
\* fetch.
ResolutionFailed ==
  \/ pc = "done" /\ ~Submitted /\ exception = NoError
  \/ /\ pc \in {"except", "done"}
     /\ exception.kind = "HttpError"
     /\ exception.message # "instances.insert"

\* C1: the insert is issued at most once, and only once every resolution step
\* has succeeded; a call in which a resolution step failed has issued no
\* insert and is not SUBMITTED, and SUBMITTED is only reached through the one
\* insert.
C1_InsertOnlyAfterResolution ==
  LET inserts == CallCount("instances.insert")
  IN /\ inserts <= 1
     /\ inserts = 1 =>
          /\ calls[Len(calls)].method = "instances.insert"
          /\ ResolutionSucceeded
     /\ Submitted => inserts = 1
     /\ ResolutionFailed => (inserts = 0 /\ ~Submitted)

C1_Witness ==
  /\ Submitted
  /\ CallCount("instances.insert") = 1
  /\ Len(calls) = 4

\* C2: after get_metadata, every template item whose key starts with
\* 'orchestrate_' is found in the extended mapping under the key without the
\* whole prefix, with the value of the last such item, and every key of the
\* extended mapping is such an unprefixed key.
C2_WholePrefixStripped ==
  pc \in AfterBuildName \cup {"build_name"} =>
    LET items == template.properties.metadata.items
    IN /\ \A i \in 1..Len(items) :
            StartsWith(items[i].key, ReservedPrefix) =>
              LET key == DropFirst(items[i].key, Len(ReservedPrefix))
              IN /\ key \in DOMAIN orchestrate_metadata
                 /\ orchestrate_metadata[key] = LastValue(items, items[i].key)
       /\ \A key \in DOMAIN orchestrate_metadata :
            \E i \in 1..Len(items) : items[i].key = ReservedPrefix \o key

\* C3: the machineType of the payload is '{zone_url}/machineTypes/M', M being
\* the value of the template item 'orchestrate_machine_type' when there is one
\* and the machineType the template's properties declare otherwise.
C3_MachineTypeOverride ==
  IsBound(payload) =>
    LET override ==
          LastValue(template.properties.metadata.items, "orchestrate_machine_type")
        M == IF override # None THEN override ELSE template.properties.machineType
    IN payload.machineType = ZoneUrl(request) \o "/machineTypes/" \o M

\* C4 as stated: a template with zero or with more than one boot-flagged disk
\* makes get_boot_images fail with 'Template has no boot disk.' and fetch no
\* image.
C4_FailsUnlessExactlyOneBootDisk ==
  [][(pc = "get_boot_images"
        /\ BootCount(template.properties.disks) # 1) =>
       (outcome' = NoBootDiskError /\ pc' = "done" /\ calls' = calls)]_vars

\* C4, amended: with no boot-flagged disk get_boot_images fails with
\* 'Template has no boot disk.' and fetches no image; with one or more it does
\* not raise that error, and the image it goes on to fetch is the one the first
\* boot-flagged disk references.
C4_FailsWithoutBootDisk ==
  [][pc = "get_boot_images" =>
       LET disks == template.properties.disks
           boots == {i \in 1..Len(disks) : disks[i].boot}
       IN /\ boots = {} =>
               (outcome' = NoBootDiskError /\ pc' = "done" /\ calls' = calls)
          /\ boots # {} =>
               /\ outcome' # NoBootDiskError
               /\ pc' = "images_get" =>
                    \A i \in boots :
                      (\A j \in boots : i <= j) =>
                        disks[i].initializeParams.sourceImage =
                          ImageUrl(image_ref'.project, image_ref'.version)]_vars

C4_Witness ==
  /\ pc = "images_get"
  /\ template.properties.disks = <<OtherBootDisk, BootDisk>>
  /\ image_ref.version = "w1"

\* C5: with a non-empty explicit name on the request, build_name returns
\* exactly that name.
C5_ExplicitNameVerbatim ==
  (pc \in AfterBuildName /\ Truthy(request.name)) => name = request.name

\* C6: get_os_type returns linux or windows, or fails with the unknown-OS
\* error, for every image, labelled or not.
C6_OsTypeLinuxOrWindows ==
  IsBound(boot_image_latest) =>
    \A image \in {boot_image, boot_image_latest} :
      LET os_type == get_os_type(image)
      IN IF os_type.ok THEN os_type.value \in {"linux", "windows"}
         ELSE os_type.exc.kind = CreationError

\* The keyword arguments the name pattern is formatted with when the extended
\* mapping is keyed by the unprefixed names.
IntendedNameFields(instance, items, unique_id) ==
  LET gpu_type == LastValue(items, "orchestrate_gpu_type")
      gpu_count == LastValue(items, "orchestrate_gpu_count")
      meta == [k \in {"gpu_type" : x \in {1} \ {y \in {1} : gpu_type = None}}
                   \cup {"gpu_count" : x \in {1} \ {y \in {1} : gpu_count = None}} |->
                 IF k = "gpu_type" THEN gpu_type ELSE gpu_count]
  IN NameFields(instance, meta, unique_id)

\* C7: without an explicit name, the name of the payload is the pattern of the
\* template item 'orchestrate_instance_name_pattern' with its placeholders
\* substituted, and the default pattern only when the template has no such
\* item.
C7_TemplatePatternNamesPayload ==
  (IsBound(payload) /\ ~Truthy(request.name)) =>
    LET items == template.properties.metadata.items
        carried == LastValue(items, "orchestrate_instance_name_pattern")
        pattern == IF Truthy(carried) THEN carried ELSE default_pattern
    IN \E id \in UniqueIds :
         payload.name = Format(pattern, IntendedNameFields(request, items, id)).value

\* C8: once run has ended on an HttpError raised inside its try block, the
\* caller gets the name-conflict error when that error is the 409 of the
\* insert, and the very same HttpError in every other case.
C8_OnlyInsertConflictReclassified ==
  (pc = "done" /\ exception.kind = "HttpError") =>
    IF exception.status = 409 /\ exception.message = "instances.insert"
    THEN outcome = Exception(CreationError, ConflictMessage(name))
    ELSE outcome = exception

\* C9: for a template with exactly one boot-flagged disk, the sourceImage of
\* the boot disk of the payload is the selfLink of the latest image of the
\* family of the image the template references when use_latest_image is set,
\* and the template's reference when it is not; the sourceImage of every other
\* disk is the template's.
C9_BootDiskSourceImage ==
  (IsBound(payload) /\ BootCount(template.properties.disks) = 1) =>
    LET disks == template.properties.disks
    IN /\ Len(payload.disks) = Len(disks)
       /\ \A i \in 1..Len(disks) :
            LET original == disks[i].initializeParams.sourceImage
                built == payload.disks[i].initializeParams.sourceImage
            IN IF disks[i].boot /\ request.use_latest_image
               THEN /\ built = world.latest.selfLink
                    /\ world.latest.family = world.image.family
                    /\ Call("images.get", MatchImageLink(original).version)
                         \in Range(calls)
                    /\ Call("images.getFromFamily", world.image.family)
                         \in Range(calls)
               ELSE built = original

C9_Witness ==
  /\ IsBound(payload)
  /\ request.use_latest_image
  /\ template.properties.disks = <<DataDisk, BootDisk>>
  /\ payload.disks[2].initializeParams.sourceImage = ImageUrl("img", "v2")
  /\ payload.disks[1].initializeParams.sourceImage = ImageUrl("img", "data")

\* The templates of a list response that carry the default-size marker.
MarkedDefault(listed) ==
  {i \in 1..Len(listed) :
     \E item \in Range(listed[i].properties.metadata.items) :
       item.key = "orchestrate_default_size" /\ item.value = "true"}

\* C10: without a size, get_template issues one list call filtered by
\* '{family}-*' and no get, and returns the first listed template marked as the
\* default size, or fails with the error asking for an explicit size when no
\* listed template is marked; with a size it issues one get of
\* '{family}-{size}' and no list call.
C10_TemplateLocation ==
  Len(calls) >= 1 =>
    IF request.size = "" THEN
      /\ calls[1] = Call("instanceTemplates.list",
                         "name = \"" \o request.template \o "-*\"")
      /\ CallCount("instanceTemplates.list") = 1
      /\ CallCount("instanceTemplates.get") = 0
      /\ exception.message # "instanceTemplates.list" =>
           LET listed == IF "items" \in DOMAIN world.list_response
                         THEN world.list_response.items ELSE <<>>
               marked == MarkedDefault(listed)
           IN IF marked = {}
              THEN /\ pc = "done"
                   /\ ~IsBound(template)
                   /\ outcome.kind = CreationError
                   /\ EndsWith(outcome.message,
                               "Please specify an explicit size in the request.")
              ELSE \E i \in marked :
                     /\ \A j \in marked : i <= j
                     /\ template = listed[i]
    ELSE
      /\ calls[1] = Call("instanceTemplates.get",
                         request.template \o "-" \o request.size)
      /\ CallCount("instanceTemplates.get") = 1
      /\ CallCount("instanceTemplates.list") = 0
      /\ exception.message # "instanceTemplates.get" =>
           template = world.get_response

C10_Witness ==
  /\ request.size = ""
  /\ IsBound(template)
  /\ Cardinality(MarkedDefault(world.list_response.items)) = 2
  /\ template = world.list_response.items[1]
  /\ template # world.list_response.items[2]

\* The names a name pattern may refer to.
RecognizedPlaceholders ==
  {"template", "size", "region", "zone", "type", "gpu_name", "gpu_count",
   "gpu_type", "user", "id"}

\* The pattern build_name formats: the explicit name, else the pattern the
\* extended mapping holds, else the default pattern.
PatternInEffect ==
  IF Truthy(request.name) THEN request.name
  ELSE IF "instance_name_pattern" \in DOMAIN orchestrate_metadata
          /\ Truthy(orchestrate_metadata["instance_name_pattern"])
  THEN orchestrate_metadata["instance_name_pattern"]
  ELSE default_pattern

\* The '{field}' placeholders of a pattern whose field is not recognized, in a
\* pattern without escaped braces.
UnknownPlaceholders(pattern) ==
  LET fields ==
        {SubSeq(pattern, i + 1, j - 1) :
           i \in Occurrences(pattern, "{"), j \in Occurrences(pattern, "}")}
      plain == {f \in fields : Occurrences(f, "{") = {} /\ Occurrences(f, "}") = {}}
  IN {"{" \o f \o "}" : f \in plain \ (RecognizedPlaceholders \cup {""})}

\* Only the braces of placeholders occur in the pattern, in pairs.
WellFormed(pattern) ==
  /\ Occurrences(pattern, "{{") = {}
  /\ Occurrences(pattern, "}}") = {}
  /\ \A i \in Occurrences(pattern, "{") :
       \E j \in Occurrences(pattern, "}") :
         /\ i < j
         /\ \A k \in (i + 1)..(j - 1) : CharAt(pattern, k) \notin {"{", "}"}
  /\ \A j \in Occurrences(pattern, "}") :
       \E i \in Occurrences(pattern, "{") :
         /\ i < j
         /\ \A k \in (i + 1)..(j - 1) : CharAt(pattern, k) \notin {"{", "}"}

C12_OneStartupScriptAppended ==
  IsBound(run_payload) =>
    LET items == run_payload.metadata.items
        before == get_metadata(request, template).instance_metadata
        booted == IF request.use_latest_image THEN boot_image_latest ELSE boot_image
        os_type == get_os_type(booted)
    IN /\ Len(items) = Len(before) + 1
       /\ SubSeq(items, 1, Len(before)) = before
       /\ os_type.ok
       /\ os_type.value \in {"linux", "windows"}
       /\ items[Len(items)].key =
            (IF os_type.value = "linux" THEN "startup-script-url"
             ELSE "windows-startup-script-url")

\* The steps between get_metadata and set_startup_script, at which
\* instance_metadata is the list get_metadata returned.
MetadataAsSplit ==
  {"build_name", "get_boot_images", "images_get", "images_getFromFamily",
   "assemble", "set_startup_script"}

Unprefixed(item) == ~StartsWith(item.key, ReservedPrefix)

====
